---------------------------- MODULE Spec2Model ----------------------------
(***************************************************************************)
(* A model of package testy (src/testy.go, lines 1-468): the facade T      *)
(* around a testing.T, its shared accumulator, the helpers True, False,    *)
(* Nil, NotNil, Equal, Unequal, the logging facade and decorate.           *)
(*                                                                         *)
(* Go strings are sequences of tokens.  Every separator byte (space, tab,  *)
(* newline, carriage return, slash, backslash, colon, double quote) is a   *)
(* token of its own; every other token is a maximal run of other bytes.    *)
(* strings.TrimSpace, strings.Split, strings.LastIndex and strings.Join    *)
(* only ever cut at separator bytes, so they act on token sequences as     *)
(* they act on byte sequences.                                             *)
(***************************************************************************)
EXTENDS Integers, Sequences, FiniteSets, TLC

VARIABLES
  handles,   \* the *T values the test holds, in creation order
  origin,    \* history: how each handle was derived (parent, sum of Uplevel arguments)
  accs,      \* the accumulator objects, addressed by T.context
  heap,      \* backing arrays of the []string slices
  tests,     \* the host testing.T objects, addressed by T.test
  exited,    \* the test goroutine has run runtime.Goexit (FailNow / SkipNow)
  snaps,     \* slices returned by Output() that the test still holds
  ret,       \* what the last Done() / FailCount() / Failed() / Skipped() returned
  arg,       \* the operands the test passes to Nil, NotNil, Equal and Unequal
  made,      \* history: the calls made so far, by kind, and the handle of the last
  procs,     \* the goroutines that call the facade concurrently: where each is
  mutex      \* accumulator.mutex: the goroutine that holds it, or "free"

vars == <<handles, origin, accs, heap, tests, exited, snaps, ret, arg, made, procs, mutex>>

-----------------------------------------------------------------------------
(* Bounds of the model *)

\* Spec: recorded calls, handles
MaxWrites == 2
MaxHandles == 2
\* SpecReport: recorded calls, handles
ReportWrites == 3
ReportHandles == 2
\* SpecDerive: recorded calls, handles
DeriveWrites == 1
DeriveHandles == 3
\* SpecSite: recorded calls, handles
SiteWrites == 1
SiteHandles == 3
\* SpecValues: recorded calls
ValueWrites == 2
\* SpecAbort: recorded calls
AbortWrites == 2
\* SpecLayout: recorded calls, handles
LayoutWrites == 2
LayoutHandles == 3
\* SpecConc: recording calls started by the goroutines
ConcOps == 2
\* SpecRead: recording calls started by the one recording goroutine
ReadOps == 2
\* SpecLive: recording calls started by the goroutines
LiveOps == 2
\* SpecSnap: recorded calls, slices held
SnapWrites == 2
MaxSnaps == 1

-----------------------------------------------------------------------------
(* package strings *)

Space == {" ", "\t", "\n", "\r"}

RECURSIVE TrimLeft(_)
TrimLeft(s) ==
  IF s # <<>> /\ Head(s) \in Space THEN TrimLeft(Tail(s)) ELSE s

RECURSIVE TrimRight(_)
TrimRight(s) ==
  IF s # <<>> /\ s[Len(s)] \in Space THEN TrimRight(SubSeq(s, 1, Len(s) - 1)) ELSE s

TrimSpace(s) == TrimRight(TrimLeft(s))

\* strings.LastIndex(s, sep) for a one-byte sep: 0-based, -1 when absent
LastIndex(s, sep) ==
  LET at == {i \in 1..Len(s) : s[i] = sep}
  IN  IF at = {} THEN -1 ELSE (CHOOSE i \in at : \A j \in at : j <= i) - 1

\* s[from:] with a 0-based from
SliceFrom(s, from) == SubSeq(s, from + 1, Len(s))

\* strings.Split(s, sep) for a one-byte sep: always at least one piece
RECURSIVE Split(_, _)
Split(s, sep) ==
  LET at == {i \in 1..Len(s) : s[i] = sep}
  IN  IF at = {} THEN <<s>>
      ELSE LET i == CHOOSE k \in at : \A j \in at : k <= j
           IN  <<SubSeq(s, 1, i - 1)>> \o Split(SubSeq(s, i + 1, Len(s)), sep)

RECURSIVE Join(_, _)
Join(elems, sep) ==
  IF elems = <<>> THEN <<>>
  ELSE IF Len(elems) = 1 THEN elems[1]
  ELSE elems[1] \o sep \o Join(Tail(elems), sep)

\* strings.Contains
Contains(s, sub) ==
  \E i \in 0..(Len(s) - Len(sub)) : SubSeq(s, i + 1, i + Len(sub)) = sub

HasPrefix(s, p) == Len(p) <= Len(s) /\ SubSeq(s, 1, Len(p)) = p

-----------------------------------------------------------------------------
(* Go values passed as interface{}.  type is the dynamic type's name, kind *)
(* its reflect.Kind, ref the identity of what a pointer, slice, map, chan  *)
(* or func refers to (0: a nil one), text what %v prints for its content,  *)
(* nan whether a float is NaN.                                             *)

V(type, kind, ref, text, nan) ==
  [type |-> type, kind |-> kind, ref |-> ref, text |-> text, nan |-> nan]

NilMarker   == V(<<"nil">>, "invalid", 0, <<"<nil>">>, FALSE)
Int1        == V(<<"int">>, "int", 0, <<"1">>, FALSE)
Int2        == V(<<"int">>, "int", 0, <<"2">>, FALSE)
Float1      == V(<<"float64">>, "float64", 0, <<"1">>, FALSE)
FloatNaN    == V(<<"float64">>, "float64", 0, <<"NaN">>, TRUE)
StrFoo      == V(<<"string">>, "string", 0, <<"foo">>, FALSE)
StrTab      == V(<<"string">>, "string", 0, <<"foo", "\t", "bar">>, FALSE)
BoolTrue    == V(<<"bool">>, "bool", 0, <<"true">>, FALSE)
StructPair  == V(<<"example.pair">>, "struct", 0, <<"{1", " ", "1}">>, FALSE)
NilPtr      == V(<<"*int">>, "ptr", 0, <<>>, FALSE)
PtrA        == V(<<"*int">>, "ptr", 1, <<"7">>, FALSE)
PtrB        == V(<<"*int">>, "ptr", 2, <<"7">>, FALSE)
PtrC        == V(<<"*int">>, "ptr", 3, <<"8">>, FALSE)
NilSlice    == V(<<"[]uint8">>, "slice", 0, <<>>, FALSE)
EmptySlice  == V(<<"[]uint8">>, "slice", 4, <<>>, FALSE)
SliceA      == V(<<"[]uint8">>, "slice", 5, <<"1", " ", "2">>, FALSE)
SliceB      == V(<<"[]uint8">>, "slice", 6, <<"1", " ", "2">>, FALSE)
NilMap      == V(<<"map[string]int">>, "map", 0, <<>>, FALSE)
EmptyMap    == V(<<"map[string]int">>, "map", 7, <<>>, FALSE)
NilFunc     == V(<<"func()">>, "func", 0, <<>>, FALSE)
FuncF       == V(<<"func()">>, "func", 8, <<>>, FALSE)
NilChan     == V(<<"chan int">>, "chan", 0, <<>>, FALSE)
ChanC       == V(<<"chan int">>, "chan", 9, <<>>, FALSE)

RefKinds == {"chan", "func", "interface", "map", "ptr", "slice"}

\* reflect.Value.IsNil, defined for the kinds of RefKinds
IsNil(v) == v.ref = 0

\* got == nil for an interface{} operand: it holds no value at all
IsNilInterface(x) == x.kind = "invalid"

\* checkNil without the reflection: only the nil interface is nil
checkNil_Untyped(x) == IsNilInterface(x)

checkNil(x) ==
  IF IsNilInterface(x) THEN TRUE
  ELSE IF x.kind \in RefKinds THEN IsNil(x)
  ELSE FALSE

\* reflect.DeepEqual on two values that are not the nil interface
DeepEqual(a, b) ==
  IF a.type # b.type THEN FALSE
  ELSE CASE a.kind = "func"    -> IsNil(a) /\ IsNil(b)
         [] a.kind = "float64" -> ~a.nan /\ ~b.nan /\ a.text = b.text
         [] a.kind = "chan"    -> a.ref = b.ref
         [] a.kind = "ptr"     -> \/ a.ref = b.ref
                                  \/ ~IsNil(a) /\ ~IsNil(b) /\ a.text = b.text
         [] a.kind \in {"slice", "map"} ->
                                  /\ IsNil(a) = IsNil(b)
                                  /\ Len(a.text) = Len(b.text)
                                  /\ (a.ref = b.ref \/ a.text = b.text)
         [] OTHER              -> a.text = b.text

-----------------------------------------------------------------------------
(* package fmt and strconv *)

\* the %v verb
FormatV(v) ==
  CASE v.kind = "invalid" -> <<"<nil>">>
    [] v.kind \in {"ptr", "func", "chan"} ->
         IF IsNil(v) THEN <<"<nil>">> ELSE <<"0xc00000", ToString(v.ref)>>
    [] v.kind = "slice" -> <<"[">> \o v.text \o <<"]">>
    [] v.kind = "map"   -> <<"map[">> \o v.text \o <<"]">>
    [] OTHER            -> v.text

\* strconv.Quote: the bytes it escapes, between double quotes
Quote(s) ==
  <<"\"">>
  \o [i \in 1..Len(s) |->
        CASE s[i] = "\t" -> "\\t"
          [] s[i] = "\n" -> "\\n"
          [] s[i] = "\r" -> "\\r"
          [] s[i] = "\"" -> "\\\""
          [] s[i] = "\\" -> "\\\\"
          [] OTHER       -> s[i]]
  \o <<"\"">>

\* fmt.Sprintln: operands separated by spaces, then a newline
RECURSIVE SprintOperands(_)
SprintOperands(args) ==
  IF args = <<>> THEN <<>>
  ELSE IF Len(args) = 1 THEN FormatV(args[1])
  ELSE FormatV(args[1]) \o <<" ">> \o SprintOperands(Tail(args))

Sprintln(args) == SprintOperands(args) \o <<"\n">>

\* fmt.Sprintf for formats whose verbs ("%s", "%d", "%v") are tokens of their
\* own and as many as the operands
RECURSIVE Sprintf(_, _)
Sprintf(format, args) ==
  IF format = <<>> THEN <<>>
  ELSE IF Head(format) \in {"%s", "%d", "%v"} /\ args # <<>>
       THEN FormatV(Head(args)) \o Sprintf(Tail(format), Tail(args))
       ELSE <<Head(format)>> \o Sprintf(Tail(format), args)

diag(prefix, value) ==
  IF IsNilInterface(value) THEN prefix \o <<":", " ", "nil", "\n">>
  ELSE CASE value.kind = "string" ->
              prefix \o <<":", " ">> \o Quote(FormatV(value)) \o <<"\n">>
         [] value.kind = "bool" ->
              prefix \o <<":", " ">> \o FormatV(value) \o <<"\n">>
         [] OTHER ->
              prefix \o <<":", " ">> \o FormatV(value)
                     \o <<" ", "(">> \o value.type \o <<")", "\n">>

-----------------------------------------------------------------------------
(* Slices.  A slice is a header [arr, len, cap] on a backing array of the  *)
(* heap (arr = 0: the nil slice).  m is the memory the code works on: the  *)
(* record of handles, accs, heap, tests and exited.                        *)

NilSlice0 == [arr |-> 0, len |-> 0, cap |-> 0]

NewArr(hp) == CHOOSE i \in 1..(Cardinality(DOMAIN hp) + 1) : i \notin DOMAIN hp

\* the elements s[0:len]
Elems(hp, s) == IF s.arr = 0 THEN <<>> ELSE SubSeq(hp[s.arr], 1, s.len)

\* make([]string, n)
make(hp, n) ==
  LET id == NewArr(hp)
  IN  [heap  |-> hp @@ (id :> [i \in 1..n |-> <<>>]),
       slice |-> [arr |-> id, len |-> n, cap |-> n]]

\* the capacity append grows a full slice of strings to
GrowCap(cap) == IF cap = 0 THEN 1 ELSE 2 * cap

\* append(s, x): in place when the capacity allows, else into a new array
append(hp, s, x) ==
  IF s.len < s.cap
  THEN [heap  |-> [hp EXCEPT ![s.arr][s.len + 1] = x],
        slice |-> [s EXCEPT !.len = @ + 1]]
  ELSE LET id == NewArr(hp)
           n  == GrowCap(s.cap)
       IN  [heap  |-> hp @@ (id :> [i \in 1..n |->
                                      IF i <= s.len THEN hp[s.arr][i]
                                      ELSE IF i = s.len + 1 THEN x ELSE <<>>]),
            slice |-> [arr |-> id, len |-> s.len + 1, cap |-> n]]

\* s[i] = x
SetIndex(hp, s, i, x) == [hp EXCEPT ![s.arr][i] = x]

\* the arrays still referenced by an accumulator or by a slice the test holds
Collect(hp, as, held) ==
  LET live == {as[i].output.arr : i \in 1..Len(as)} \cup {held[j].arr : j \in 1..Len(held)}
  IN  [i \in (DOMAIN hp) \cap live |-> hp[i]]

-----------------------------------------------------------------------------
(* type accumulator *)

NewAccumulator == [failCount |-> 0, output |-> NilSlice0]

getFailCount(m, c) == m.accs[c].failCount

\* outputCopy returning the accumulator's own slice
outputCopy_Alias(m, c) == [heap |-> m.heap, slice |-> m.accs[c].output]

\* the copy loop of outputCopy: out[i] = v for i, v in a.output
outputCopy(m, c) ==
  LET a  == m.accs[c]
      mk == make(m.heap, a.output.len)
  IN  [heap  |-> [mk.heap EXCEPT ![mk.slice.arr] = Elems(m.heap, a.output)],
       slice |-> mk.slice]

\* log keeping the last message only
log_Overwrite(m, c, s) ==
  LET r == append(m.heap, NilSlice0, TrimSpace(s))
  IN  [m EXCEPT !.heap = r.heap, !.accs[c].output = r.slice]

log(m, c, s) ==
  LET r == append(m.heap, m.accs[c].output, TrimSpace(s))
  IN  [m EXCEPT !.heap = r.heap, !.accs[c].output = r.slice]

incFailCount(m, c) == [m EXCEPT !.accs[c].failCount = @ + 1]

-----------------------------------------------------------------------------
(* The host: the methods of testing.T the facade calls *)

NewTest == [failed |-> FALSE, skipped |-> FALSE, finished |-> FALSE]

\* t.test.Fail()
testFail(m, t) == [m EXCEPT !.tests[t].failed = TRUE]

\* t.test.FailNow(): Fail, then the goroutine exits
testFailNow(m, t) ==
  [m EXCEPT !.tests[t].failed = TRUE, !.tests[t].finished = TRUE, !.exited = TRUE]

\* t.test.SkipNow(): marks the test skipped, then the goroutine exits
testSkipNow(m, t) ==
  [m EXCEPT !.tests[t].skipped = TRUE, !.tests[t].finished = TRUE, !.exited = TRUE]

testFailed(m, t) == m.tests[t].failed

testSkipped(m, t) == m.tests[t].skipped

-----------------------------------------------------------------------------
(* The call stack and runtime.Caller.  A stack is the sequence of frames,  *)
(* outermost first; a frame is the file and line of the call it is at.     *)

Frame(file, line) == [file |-> file, line |-> line]

TestyFile == <<"/", "go", "/", "src", "/", "testy", "/", "testy.go">>
DecorateLine == 385

\* runtime.Caller(skip), called by the function on top of stack: skip 0 is
\* that function's frame, skip 1 its caller's
Caller(stack, skip) ==
  LET i == Len(stack) - skip
  IN  IF i \in 1..Len(stack)
      THEN [ok |-> TRUE, file |-> stack[i].file, line |-> stack[i].line]
      ELSE [ok |-> FALSE, file |-> <<>>, line |-> 0]

\* the stack inside decorate, called at line site of a method of T that the
\* test called with stack stk
Inside(stk, site) == stk \o <<Frame(TestyFile, site), Frame(TestyFile, DecorateLine)>>

-----------------------------------------------------------------------------
(* type T *)

NewCase(t, name, c) ==
  [test |-> t, caseName |-> name, callDepth |-> 1, context |-> c, label |-> <<>>]

\* the file name cut at its last separator
Truncate(file) ==
  IF LastIndex(file, "/") >= 0 THEN SliceFrom(file, LastIndex(file, "/") + 1)
  ELSE IF LastIndex(file, "\\") >= 0 THEN SliceFrom(file, LastIndex(file, "\\") + 1)
  ELSE file

\* the lines of s, without a trailing empty one
MessageLines(s) ==
  LET lines == Split(s, "\n")
      l     == Len(lines)
  IN  IF l > 1 /\ lines[l] = <<>> THEN SubSeq(lines, 1, l - 1) ELSE lines

\* decorate without the tab of the continuation lines
decorate_Flat(t, s, stack) ==
  LET c    == Caller(stack, 1 + t.callDepth)
      file == IF c.ok THEN Truncate(c.file) ELSE <<"???">>
      line == IF c.ok THEN c.line ELSE 1
  IN  <<"\t">> \o file \o <<":", ToString(line), ":", " ">> \o t.label
      \o Join(MessageLines(s), <<"\n">>) \o <<"\n">>

\* decorate without the placeholder of a frame that does not exist
decorate_NoPlaceholder(t, s, stack) ==
  LET c == Caller(stack, 1 + t.callDepth)
  IN  <<"\t">> \o Truncate(c.file) \o <<":", ToString(c.line), ":", " ">> \o t.label
      \o Join(MessageLines(s), <<"\n", "\t">>) \o <<"\n">>

\* decorate without the frame of the method that called it
decorate_Shallow(t, s, stack) ==
  LET c    == Caller(stack, t.callDepth)
      file == IF c.ok THEN Truncate(c.file) ELSE <<"???">>
      line == IF c.ok THEN c.line ELSE 1
  IN  <<"\t">> \o file \o <<":", ToString(line), ":", " ">> \o t.label
      \o Join(MessageLines(s), <<"\n", "\t">>) \o <<"\n">>

decorate(t, s, stack) ==
  LET c    == Caller(stack, 1 + t.callDepth)
      file == IF c.ok THEN Truncate(c.file) ELSE <<"???">>
      line == IF c.ok THEN c.line ELSE 1
  IN  <<"\t">> \o file \o <<":", ToString(line), ":", " ">> \o t.label
      \o Join(MessageLines(s), <<"\n", "\t">>) \o <<"\n">>

\* Label adding to the label it finds
Label_Accumulating(m, h, s) ==
  LET t == [m.handles[h] EXCEPT !.label = @ \o TrimSpace(Sprintln(s)) \o <<":", " ">>]
  IN  [m EXCEPT !.handles = Append(@, t)]

\* Label: the receiver is a copy; the copy is changed and its address returned
Label(m, h, s) ==
  LET t == [m.handles[h] EXCEPT !.label = TrimSpace(Sprintln(s)) \o <<":", " ">>]
  IN  [m EXCEPT !.handles = Append(@, t)]

\* Uplevel taking a negative depth for 0
Uplevel_Validated(m, h, depth) ==
  LET t == [m.handles[h] EXCEPT !.callDepth = @ + (IF depth < 0 THEN 0 ELSE depth)]
  IN  [m EXCEPT !.handles = Append(@, t)]

\* Uplevel with a pointer receiver: the caller's T is changed and returned
Uplevel_InPlace(m, h, depth) ==
  LET t == [m.handles[h] EXCEPT !.callDepth = @ + depth]
  IN  [m EXCEPT !.handles = Append([@ EXCEPT ![h] = t], t)]

Uplevel(m, h, depth) ==
  LET t == [m.handles[h] EXCEPT !.callDepth = @ + depth]
  IN  [m EXCEPT !.handles = Append(@, t)]

\* summary with one wording for every count of failures
summary_Plural(m, h) ==
  LET t     == m.handles[h]
      count == getFailCount(m, t.context)
  IN  IF count = 0 THEN t.caseName \o <<":", " ", "all", " ", "tests", " ", "passed", "\n">>
      ELSE t.caseName \o <<":", " ", ToString(count), " ", "tests", " ", "failed", "\n">>

summary(m, h) ==
  LET t     == m.handles[h]
      count == getFailCount(m, t.context)
  IN  IF count = 0 THEN t.caseName \o <<":", " ", "all", " ", "tests", " ", "passed", "\n">>
      ELSE IF count = 1
           THEN t.caseName \o <<":", " ", ToString(count), " ", "test", " ", "failed", "\n">>
           ELSE t.caseName \o <<":", " ", ToString(count), " ", "tests", " ", "failed", "\n">>

Done(m, h) ==
  LET cp == outputCopy(m, m.handles[h].context)
  IN  summary(m, h) \o Join(Elems(cp.heap, cp.slice), <<"\n">>)

FailCount(m, h) == getFailCount(m, m.handles[h].context)

Output(m, h) == outputCopy(m, m.handles[h].context)

\* the three statements of a failing helper: count, log, tell the host
Failure(m, h, stk, site, msg) ==
  LET t == m.handles[h]
  IN  testFail(log(incFailCount(m, t.context), t.context,
                   decorate(t, msg, Inside(stk, site))), t.test)

True(m, h, stk, cond) ==
  IF ~cond
  THEN Failure(m, h, stk, 200, <<"Expression", " ", "was", " ", "not", " ", "true">>)
  ELSE m

False(m, h, stk, cond) ==
  IF cond
  THEN Failure(m, h, stk, 209, <<"Expression", " ", "was", " ", "not", " ", "false">>)
  ELSE m

Nil(m, h, stk, got) ==
  IF ~checkNil(got)
  THEN Failure(m, h, stk, 233, <<"Expression", " ", "was", " ", "not", " ", "nil">>)
  ELSE m

NotNil(m, h, stk, got) ==
  IF checkNil(got)
  THEN Failure(m, h, stk, 243, <<"Expression", " ", "was", " ", "nil">>)
  ELSE m

CantCompare == <<"Can't", " ", "safely", " ", "compare", " ", "nil", " ", "values", " ",
                 "for", " ", "equality", ":", "\n">>
GotPrefix == <<" ", " ", " ", "Got">>
WantedPrefix == <<"Wanted">>
BothPrefix == <<" ", " ", "Both">>

\* Equal comparing with == where it calls reflect.DeepEqual
Equal_Identity(m, h, stk, got, want) ==
  IF IsNilInterface(got) \/ IsNilInterface(want)
  THEN Failure(m, h, stk, 255,
               CantCompare \o diag(GotPrefix, got) \o diag(WantedPrefix, want))
  ELSE IF got # want
  THEN Failure(m, h, stk, 262,
               <<"Values", " ", "were", " ", "not", " ", "equal", ":", "\n">>
               \o diag(GotPrefix, got) \o diag(WantedPrefix, want))
  ELSE m

Equal(m, h, stk, got, want) ==
  IF IsNilInterface(got) \/ IsNilInterface(want)
  THEN Failure(m, h, stk, 255,
               CantCompare \o diag(GotPrefix, got) \o diag(WantedPrefix, want))
  ELSE IF ~DeepEqual(got, want)
  THEN Failure(m, h, stk, 262,
               <<"Values", " ", "were", " ", "not", " ", "equal", ":", "\n">>
               \o diag(GotPrefix, got) \o diag(WantedPrefix, want))
  ELSE m

\* Unequal without its test for nil operands
Unequal_Unguarded(m, h, stk, got, want) ==
  IF DeepEqual(got, want)
  THEN Failure(m, h, stk, 279,
               <<"Values", " ", "were", " ", "not", " ", "unequal", ":", "\n">>
               \o diag(BothPrefix, got))
  ELSE m

Unequal(m, h, stk, got, want) ==
  IF IsNilInterface(got) \/ IsNilInterface(want)
  THEN Failure(m, h, stk, 272,
               CantCompare \o diag(GotPrefix, got) \o diag(<<"Got">>, want))
  ELSE IF DeepEqual(got, want)
  THEN Failure(m, h, stk, 279,
               <<"Values", " ", "were", " ", "not", " ", "unequal", ":", "\n">>
               \o diag(BothPrefix, got))
  ELSE m

\* Fail without its count: the host is told, the accumulator is not
Fail_Uncounted(m, h) == testFail(m, m.handles[h].test)

Fail(m, h) ==
  LET t == m.handles[h]
  IN  testFail(incFailCount(m, t.context), t.test)

FailNow(m, h) ==
  LET t == m.handles[h]
  IN  testFailNow(incFailCount(m, t.context), t.test)

Failed(m, h) == testFailed(m, m.handles[h].test)

\* Log and Logf: msg is what fmt.Sprintln / fmt.Sprintf returned
Log(m, h, stk, site, msg) ==
  LET t == m.handles[h]
  IN  log(m, t.context, decorate(t, msg, Inside(stk, site)))

\* Error without its call of the host
Error_Unmarked(m, h, stk, site, msg) ==
  LET t == m.handles[h]
  IN  log(incFailCount(m, t.context), t.context, decorate(t, msg, Inside(stk, site)))

\* Error and Errorf
Error(m, h, stk, site, msg) ==
  LET t == m.handles[h]
  IN  testFail(log(incFailCount(m, t.context), t.context,
                   decorate(t, msg, Inside(stk, site))), t.test)

\* Fatal ending with Fail where it calls FailNow
Fatal_Continues(m, h, stk, site, msg) ==
  LET t == m.handles[h]
  IN  testFail(log(incFailCount(m, t.context), t.context,
                   decorate(t, msg, Inside(stk, site))), t.test)

\* Fatal and Fatalf
Fatal(m, h, stk, site, msg) ==
  LET t == m.handles[h]
  IN  testFailNow(log(incFailCount(m, t.context), t.context,
                      decorate(t, msg, Inside(stk, site))), t.test)

\* Skip counting a failure
Skip_Counted(m, h, stk, site, msg) ==
  LET t == m.handles[h]
  IN  testSkipNow(log(incFailCount(m, t.context), t.context,
                      decorate(t, msg, Inside(stk, site))), t.test)

\* Skip and Skipf
Skip(m, h, stk, site, msg) ==
  LET t == m.handles[h]
  IN  testSkipNow(log(m, t.context, decorate(t, msg, Inside(stk, site))), t.test)

SkipNow(m, h) == testSkipNow(m, m.handles[h].test)

Skipped(m, h) == testSkipped(m, m.handles[h].test)

-----------------------------------------------------------------------------
(* The test: what it calls the facade with *)

TestFile == <<"/", "go", "/", "src", "/", "testy", "/", "testy_test.go">>
GoexitFrame == Frame(<<"/", "go", "/", "src", "/", "runtime", "/", "asm_amd64.s">>, 1700)
RunnerFrame == Frame(<<"/", "go", "/", "src", "/", "testing", "/", "testing.go">>, 1934)

\* TestLabelUplevel at its line 116, and checkEven called from there, at its line 128
StackTest == <<GoexitFrame, RunnerFrame, Frame(TestFile, 116)>>
StackHelper == <<GoexitFrame, RunnerFrame, Frame(TestFile, 116), Frame(TestFile, 128)>>

Str(tokens) == V(<<"string">>, "string", 0, tokens, FALSE)
IntV(n) == V(<<"int">>, "int", 0, <<ToString(n)>>, FALSE)

CaseName == <<"Logging", " ", "test">>

M == [handles |-> handles, accs |-> accs, heap |-> heap, tests |-> tests, exited |-> exited]

\* the history after a call through handle h that records f failures and
\* g messages and aborts a times
Bump(h, f, g, a) ==
  [made EXCEPT !.fail = @ + f, !.msg = @ + g, !.abort = @ + a, !.writes = @ + 1,
               !.by = h]

\* ret after a call that returns nothing, or returns a handle
NoReturn == [op |-> "none", str |-> <<>>, list |-> <<>>, num |-> 0, flag |-> FALSE]

\* the state after a method of T returned (or ended the goroutine) leaving memory m
Commit(m, history) ==
  /\ handles' = m.handles
  /\ accs' = m.accs
  /\ tests' = m.tests
  /\ exited' = m.exited
  /\ heap' = Collect(m.heap, m.accs, [j \in 1..Len(snaps) |-> snaps[j].slice])
  /\ made' = history
  /\ ret' = NoReturn
  /\ UNCHANGED <<origin, snaps, arg, procs, mutex>>

\* the test goroutine is alive
Running == ~exited

\* The goroutines: two that record, one that reads
Writers == {"w1", "w2"}
Goroutines == Writers \cup {"r"}

\* a goroutine that is in no method of T.  call and inside say where it is in
\* a method (the call of Body it is at, and whether it holds the mutex in
\* it), count and output are what it read from the accumulator there; the
\* rest is history: counted and said, the increments and the entries it has
\* stored, and what its last FailCount(), Output() and Done() returned
IdleProc ==
  [op |-> "none", h |-> 0, msg |-> <<>>, call |-> 0, inside |-> FALSE,
   count |-> 0, output |-> NilSlice0,
   counted |-> 0, said |-> <<>>,
   gotCount |-> -1, gotOutput |-> <<>>, hasOutput |-> FALSE,
   gotDone |-> <<>>, doneAt |-> -1, doneLog |-> <<>>, since |-> -1]

Init0 ==
  /\ handles = <<NewCase(1, CaseName, 1)>>
  /\ origin = <<[parent |-> 0, up |-> 0, labelled |-> FALSE, parts |-> <<>>]>>
  /\ accs = <<NewAccumulator>>
  /\ heap = <<>>
  /\ tests = <<NewTest>>
  /\ exited = FALSE
  /\ snaps = <<>>
  /\ ret = NoReturn
  /\ made = [fail |-> 0, msg |-> 0, abort |-> 0, writes |-> 0, by |-> 0]
  /\ procs = [g \in Goroutines |-> IdleProc]
  /\ mutex = "free"

LabelCall(h, parts) ==
  /\ Running
  /\ handles' = Label(M, h, parts).handles
  /\ origin' = Append(origin, [origin[h] EXCEPT !.parent = h, !.labelled = TRUE,
                                                !.parts = parts])
  /\ ret' = NoReturn
  /\ UNCHANGED <<accs, heap, tests, exited, snaps, arg, made, procs, mutex>>

UplevelCall(h, depth) ==
  /\ Running
  /\ handles' = Uplevel(M, h, depth).handles
  /\ origin' = Append(origin, [origin[h] EXCEPT !.parent = h, !.up = @ + depth])
  /\ ret' = NoReturn
  /\ UNCHANGED <<accs, heap, tests, exited, snaps, arg, made, procs, mutex>>

TrueCall(h, stk, cond) ==
  /\ Running
  /\ Commit(True(M, h, stk, cond), IF cond THEN made ELSE Bump(h, 1, 1, 0))

FalseCall(h, stk, cond) ==
  /\ Running
  /\ Commit(False(M, h, stk, cond), IF cond THEN Bump(h, 1, 1, 0) ELSE made)

\* nil, or a nil chan, func, interface, map, pointer or slice
Absent(x) ==
  \/ x = NilMarker
  \/ x.kind \in {"chan", "func", "interface", "map", "ptr", "slice"} /\ x.ref = 0

NilCall(h, stk) ==
  /\ Running
  /\ Commit(Nil(M, h, stk, arg.a), IF Absent(arg.a) THEN made ELSE Bump(h, 1, 1, 0))

NotNilCall(h, stk) ==
  /\ Running
  /\ Commit(NotNil(M, h, stk, arg.a), IF Absent(arg.a) THEN Bump(h, 1, 1, 0) ELSE made)

\* Equal(a, b) is to fail when an operand is nil or the two are not deeply equal
EqualFails(a, b) == a = NilMarker \/ b = NilMarker \/ ~DeepEqual(a, b)
UnequalFails(a, b) == a = NilMarker \/ b = NilMarker \/ DeepEqual(a, b)

EqualCall(h, stk) ==
  /\ Running
  /\ Commit(Equal(M, h, stk, arg.a, arg.b),
            IF EqualFails(arg.a, arg.b) THEN Bump(h, 1, 1, 0) ELSE made)

UnequalCall(h, stk) ==
  /\ Running
  /\ Commit(Unequal(M, h, stk, arg.a, arg.b),
            IF UnequalFails(arg.a, arg.b) THEN Bump(h, 1, 1, 0) ELSE made)

FailCall(h) ==
  /\ Running
  /\ Commit(Fail(M, h), Bump(h, 1, 0, 0))

FailNowCall(h) ==
  /\ Running
  /\ Commit(FailNow(M, h), Bump(h, 1, 0, 1))

LogCall(h, stk, args) ==
  /\ Running
  /\ Commit(Log(M, h, stk, 308, Sprintln(args)), Bump(h, 0, 1, 0))

LogfCall(h, stk, format, args) ==
  /\ Running
  /\ Commit(Log(M, h, stk, 314, Sprintf(format, args)), Bump(h, 0, 1, 0))

ErrorCall(h, stk, args) ==
  /\ Running
  /\ Commit(Error(M, h, stk, 320, Sprintln(args)), Bump(h, 1, 1, 0))

ErrorfCall(h, stk, format, args) ==
  /\ Running
  /\ Commit(Error(M, h, stk, 327, Sprintf(format, args)), Bump(h, 1, 1, 0))

FatalCall(h, stk, args) ==
  /\ Running
  /\ Commit(Fatal(M, h, stk, 334, Sprintln(args)), Bump(h, 1, 1, 1))

FatalfCall(h, stk, format, args) ==
  /\ Running
  /\ Commit(Fatal(M, h, stk, 341, Sprintf(format, args)), Bump(h, 1, 1, 1))

SkipCall(h, stk, args) ==
  /\ Running
  /\ Commit(Skip(M, h, stk, 347, Sprintln(args)), Bump(h, 0, 1, 1))

SkipfCall(h, stk, format, args) ==
  /\ Running
  /\ Commit(Skip(M, h, stk, 353, Sprintf(format, args)), Bump(h, 0, 1, 1))

SkipNowCall(h) ==
  /\ Running
  /\ Commit(SkipNow(M, h), [made EXCEPT !.abort = @ + 1, !.writes = @ + 1])

\* The reads.  They also run in the deferred function, after the goroutine
\* was told to exit.
Returned(op, str, num, flag) ==
  /\ ret' = [op |-> op, str |-> str, list |-> <<>>, num |-> num, flag |-> flag]
  /\ UNCHANGED <<handles, origin, accs, heap, tests, exited, snaps, arg, made, procs, mutex>>

DoneCall(h) == Returned("Done", Done(M, h), 0, FALSE)

FailCountCall(h) == Returned("FailCount", <<>>, FailCount(M, h), FALSE)

FailedCall(h) == Returned("Failed", <<>>, 0, Failed(M, h))

SkippedCall(h) == Returned("Skipped", <<>>, 0, Skipped(M, h))

\* Output(), the test reading the returned slice and letting go of it
OutputCall(h) ==
  /\ LET cp == Output(M, h)
     IN  ret' = [NoReturn EXCEPT !.op = "Output", !.list = Elems(cp.heap, cp.slice)]
  /\ UNCHANGED <<handles, origin, accs, heap, tests, exited, snaps, arg, made, procs, mutex>>

\* Output(), the test keeping the returned slice; at and clean are history:
\* the calls recorded when it was taken, and whether the test has written to it
OutputHeld(h) ==
  /\ LET cp == Output(M, h)
     IN  /\ heap' = cp.heap
         /\ snaps' = Append(snaps, [slice |-> cp.slice, at |-> made.writes, clean |-> TRUE])
         /\ ret' = [NoReturn EXCEPT !.op = "Output", !.list = Elems(cp.heap, cp.slice)]
  /\ UNCHANGED <<handles, origin, accs, tests, exited, arg, made, procs, mutex>>

\* What the test may do to a slice it got from Output()
SnapSlices(ss) == [j \in 1..Len(ss) |-> ss[j].slice]

SnapOverwrite(j, i, x) ==
  /\ i <= snaps[j].slice.len
  /\ heap' = SetIndex(heap, snaps[j].slice, i, x)
  /\ snaps' = [snaps EXCEPT ![j].clean = FALSE]
  /\ UNCHANGED <<handles, origin, accs, tests, exited, ret, arg, made, procs, mutex>>

SnapAppend(j, x) ==
  /\ snaps[j].clean
  /\ LET r == append(heap, snaps[j].slice, x)
         ss == [snaps EXCEPT ![j].slice = r.slice, ![j].clean = FALSE]
     IN  /\ snaps' = ss
         /\ heap' = Collect(r.heap, accs, SnapSlices(ss))
  /\ UNCHANGED <<handles, origin, accs, tests, exited, ret, arg, made, procs, mutex>>

SnapTruncate(j) ==
  /\ snaps[j].clean
  /\ snaps[j].slice.len > 0
  /\ snaps' = [snaps EXCEPT ![j].slice.len = @ - 1, ![j].clean = FALSE]
  /\ UNCHANGED <<handles, origin, accs, heap, tests, exited, ret, arg, made, procs, mutex>>

-----------------------------------------------------------------------------
(* Specifications *)

H == 1..Len(handles)

OneTwo == <<Str(<<"one">>), Str(<<"two">>)>>
FormatSS == <<"%s", " ", "%s">>
Checking3 == <<Str(<<"Checking">>), IntV(3)>>

Init == Init0 /\ arg = [a |-> Int1, b |-> Int2, stk |-> StackTest]

\* The model's caps: w recorded calls, n handles, k slices held
MayWrite(w) == made.writes < w
MayDerive(n) == Len(handles) < n
MayHold(k) == Len(snaps) < k

\* The facade driven by one goroutine
Next ==
  \/ \E h \in H, cond \in BOOLEAN : MayWrite(MaxWrites) /\ TrueCall(h, arg.stk, cond)
  \/ \E h \in H, cond \in BOOLEAN : MayWrite(MaxWrites) /\ FalseCall(h, arg.stk, cond)
  \/ \E h \in H : MayWrite(MaxWrites) /\ NilCall(h, arg.stk)
  \/ \E h \in H : MayWrite(MaxWrites) /\ NotNilCall(h, arg.stk)
  \/ \E h \in H : MayWrite(MaxWrites) /\ EqualCall(h, arg.stk)
  \/ \E h \in H : MayWrite(MaxWrites) /\ UnequalCall(h, arg.stk)
  \/ \E h \in H : MayWrite(MaxWrites) /\ FailCall(h)
  \/ \E h \in H : MayWrite(MaxWrites) /\ FailNowCall(h)
  \/ \E h \in H : MayWrite(MaxWrites) /\ LogCall(h, arg.stk, OneTwo)
  \/ \E h \in H : MayWrite(MaxWrites) /\ LogfCall(h, arg.stk, FormatSS, OneTwo)
  \/ \E h \in H : MayWrite(MaxWrites) /\ ErrorCall(h, arg.stk, OneTwo)
  \/ \E h \in H : MayWrite(MaxWrites) /\ ErrorfCall(h, arg.stk, FormatSS, OneTwo)
  \/ \E h \in H : MayWrite(MaxWrites) /\ FatalCall(h, arg.stk, OneTwo)
  \/ \E h \in H : MayWrite(MaxWrites) /\ FatalfCall(h, arg.stk, FormatSS, OneTwo)
  \/ \E h \in H : MayWrite(MaxWrites) /\ SkipCall(h, arg.stk, OneTwo)
  \/ \E h \in H : MayWrite(MaxWrites) /\ SkipfCall(h, arg.stk, FormatSS, OneTwo)
  \/ \E h \in H : MayWrite(MaxWrites) /\ SkipNowCall(h)
  \/ \E h \in H : MayDerive(MaxHandles) /\ LabelCall(h, Checking3)
  \/ \E h \in H : MayDerive(MaxHandles) /\ UplevelCall(h, 1)
  \/ \E h \in H : FailCountCall(h)
  \/ \E h \in H : OutputCall(h)

Spec == Init /\ [][Next]_vars

\* A test case that records failures and messages and is read in between
\* through every reading method
NextReport ==
  \/ \E h \in H : MayWrite(ReportWrites) /\ ErrorCall(h, arg.stk, OneTwo)
  \/ \E h \in H : MayWrite(ReportWrites) /\ LogCall(h, arg.stk, Checking3)
  \/ \E h \in H : MayWrite(ReportWrites) /\ FailCall(h)
  \/ \E h \in H : MayDerive(ReportHandles) /\ LabelCall(h, Checking3)
  \/ \E h \in H : MayDerive(ReportHandles) /\ UplevelCall(h, 1)
  \/ \E h \in H : DoneCall(h)
  \/ \E h \in H : FailCountCall(h)
  \/ \E h \in H : FailedCall(h)
  \/ \E h \in H : SkippedCall(h)
  \/ \E h \in H : OutputCall(h)

SpecReport == Init /\ [][NextReport]_vars

\* Handles derived by Label and Uplevel, and failures recorded through them
Testing == <<Str(<<"Testing">>)>>

NextDerive ==
  \/ \E h \in H, parts \in {Checking3, Testing} :
       MayDerive(DeriveHandles) /\ LabelCall(h, parts)
  \/ \E h \in H : MayDerive(DeriveHandles) /\ UplevelCall(h, 1)
  \/ \E h \in H : MayWrite(DeriveWrites) /\ TrueCall(h, arg.stk, FALSE)
  \/ \E h \in H : MayWrite(DeriveWrites) /\ ErrorCall(h, arg.stk, OneTwo)
  \/ \E h \in H : MayWrite(DeriveWrites) /\ LogCall(h, arg.stk, OneTwo)

SpecDerive == Init /\ [][NextDerive]_vars

\* The message-recording methods called from a test function or from a helper
\* it calls, on handles of any Uplevel
InitSite ==
  /\ Init0
  /\ \E v \in {<<Int1, Int2>>, <<NilPtr, NilPtr>>}, stk \in {StackTest, StackHelper} :
       arg = [a |-> v[1], b |-> v[2], stk |-> stk]

NextSite ==
  \/ \E h \in H, depth \in {0, 1} : MayDerive(SiteHandles) /\ UplevelCall(h, depth)
  \/ \E h \in H : MayWrite(SiteWrites) /\ TrueCall(h, arg.stk, FALSE)
  \/ \E h \in H : MayWrite(SiteWrites) /\ FalseCall(h, arg.stk, TRUE)
  \/ \E h \in H : MayWrite(SiteWrites) /\ NilCall(h, arg.stk)
  \/ \E h \in H : MayWrite(SiteWrites) /\ NotNilCall(h, arg.stk)
  \/ \E h \in H : MayWrite(SiteWrites) /\ EqualCall(h, arg.stk)
  \/ \E h \in H : MayWrite(SiteWrites) /\ UnequalCall(h, arg.stk)
  \/ \E h \in H : MayWrite(SiteWrites) /\ LogCall(h, arg.stk, OneTwo)
  \/ \E h \in H : MayWrite(SiteWrites) /\ LogfCall(h, arg.stk, FormatSS, OneTwo)
  \/ \E h \in H : MayWrite(SiteWrites) /\ ErrorCall(h, arg.stk, OneTwo)
  \/ \E h \in H : MayWrite(SiteWrites) /\ ErrorfCall(h, arg.stk, FormatSS, OneTwo)
  \/ \E h \in H : MayWrite(SiteWrites) /\ FatalCall(h, arg.stk, OneTwo)
  \/ \E h \in H : MayWrite(SiteWrites) /\ FatalfCall(h, arg.stk, FormatSS, OneTwo)
  \/ \E h \in H : MayWrite(SiteWrites) /\ SkipCall(h, arg.stk, OneTwo)
  \/ \E h \in H : MayWrite(SiteWrites) /\ SkipfCall(h, arg.stk, FormatSS, OneTwo)

SpecSite == InitSite /\ [][NextSite]_vars

\* Nil, NotNil, Equal and Unequal on every pair of operands
Values ==
  {NilMarker, Int1, Int2, Float1, FloatNaN, StrFoo, StrTab, BoolTrue, StructPair,
   NilPtr, PtrA, PtrB, PtrC, NilSlice, EmptySlice, SliceA, SliceB, NilMap, EmptyMap,
   NilFunc, FuncF, NilChan, ChanC}

InitValues == Init0 /\ arg \in [a : Values, b : Values, stk : {StackTest}]

NextValues ==
  \/ MayWrite(ValueWrites) /\ NilCall(1, arg.stk)
  \/ MayWrite(ValueWrites) /\ NotNilCall(1, arg.stk)
  \/ MayWrite(ValueWrites) /\ EqualCall(1, arg.stk)
  \/ MayWrite(ValueWrites) /\ UnequalCall(1, arg.stk)

SpecValues == InitValues /\ [][NextValues]_vars

\* The test keeping and writing to the slices Output() returns
Junk == <<"junk">>

NextSnap ==
  \/ MayWrite(SnapWrites) /\ LogCall(1, arg.stk, OneTwo)
  \/ MayWrite(SnapWrites) /\ TrueCall(1, arg.stk, FALSE)
  \/ MayHold(MaxSnaps) /\ OutputHeld(1)
  \/ OutputCall(1)
  \/ \E j \in 1..Len(snaps) : \E i \in 1..snaps[j].slice.len : SnapOverwrite(j, i, Junk)
  \/ \E j \in 1..Len(snaps) : SnapAppend(j, Junk)
  \/ \E j \in 1..Len(snaps) : SnapTruncate(j)
  \/ DoneCall(1)

SpecSnap == Init /\ [][NextSnap]_vars


\* A test that records, may abort, and whose deferred function reads
NextAbort ==
  \/ MayWrite(AbortWrites) /\ TrueCall(1, arg.stk, TRUE)
  \/ MayWrite(AbortWrites) /\ LogCall(1, arg.stk, Checking3)
  \/ MayWrite(AbortWrites) /\ ErrorCall(1, arg.stk, OneTwo)
  \/ MayWrite(AbortWrites) /\ FailCall(1)
  \/ MayWrite(AbortWrites) /\ FailNowCall(1)
  \/ MayWrite(AbortWrites) /\ FatalCall(1, arg.stk, OneTwo)
  \/ MayWrite(AbortWrites) /\ FatalfCall(1, arg.stk, FormatSS, OneTwo)
  \/ MayWrite(AbortWrites) /\ SkipCall(1, arg.stk, Testing)
  \/ MayWrite(AbortWrites) /\ SkipfCall(1, arg.stk, FormatSS, OneTwo)
  \/ MayWrite(AbortWrites) /\ SkipNowCall(1)
  \/ DoneCall(1)
  \/ FailCountCall(1)
  \/ FailedCall(1)
  \/ SkippedCall(1)

SpecAbort == Init /\ [][NextAbort]_vars

\* Messages of several lines and with whitespace around them, recorded through
\* handles of any label and of any call depth for which runtime.Caller is
\* called with a skip of 0 or more
Notes == {Str(<<"one", "\n", "two">>), Str(<<" ", "one", " ", "\n">>)}

InitLayout ==
  /\ Init0
  /\ \E v \in Notes : arg = [a |-> v, b |-> v, stk |-> StackTest]

NextLayout ==
  \/ \E h \in H : MayDerive(LayoutHandles) /\ LabelCall(h, Testing)
  \/ \E h \in H, depth \in {-2, 3} :
       /\ MayDerive(LayoutHandles)
       /\ 1 + handles[h].callDepth + depth >= 0
       /\ UplevelCall(h, depth)
  \/ \E h \in H : MayWrite(LayoutWrites) /\ LogCall(h, arg.stk, <<arg.a>>)
  \/ \E h \in H : MayWrite(LayoutWrites) /\ ErrorCall(h, arg.stk, <<arg.a>>)
  \/ \E h \in H : DoneCall(h)

SpecLayout == InitLayout /\ [][NextLayout]_vars

-----------------------------------------------------------------------------
(* Goroutines.  A method of T called by a goroutine runs call by call; a    *)
(* method of the accumulator runs in two steps, Lock() with its reads and   *)
(* its writes with the deferred Unlock().                                   *)

\* the message appended before the increment
Body_LogFirst(op) ==
  CASE op = "Error"             -> <<"log", "incFailCount", "Fail">>
    [] op = "Fail"              -> <<"incFailCount", "Fail">>
    [] op = "Log"               -> <<"log">>
    [] op = "Fatal"             -> <<"incFailCount", "log", "FailNow">>
    [] op = "FailNow"           -> <<"incFailCount", "FailNow">>
    [] op = "Skip"              -> <<"log", "SkipNow">>
    [] op = "FailCount"         -> <<"getFailCount">>
    [] op = "Output"            -> <<"outputCopy">>
    [] op = "Done"              -> <<"getFailCount", "outputCopy">>

\* Done reading the log before the count
Body_DoneLogFirst(op) ==
  CASE op = "Error"             -> <<"incFailCount", "log", "Fail">>
    [] op = "Fail"              -> <<"incFailCount", "Fail">>
    [] op = "Log"               -> <<"log">>
    [] op = "Fatal"             -> <<"incFailCount", "log", "FailNow">>
    [] op = "FailNow"           -> <<"incFailCount", "FailNow">>
    [] op = "Skip"              -> <<"log", "SkipNow">>
    [] op = "FailCount"         -> <<"getFailCount">>
    [] op = "Output"            -> <<"outputCopy">>
    [] op = "Done"              -> <<"outputCopy", "getFailCount">>

\* the host told first
Body_FailFirst(op) ==
  CASE op = "Error"             -> <<"Fail", "incFailCount", "log">>
    [] op = "Fail"              -> <<"Fail", "incFailCount">>
    [] op = "Log"               -> <<"log">>
    [] op = "Fatal"             -> <<"incFailCount", "log", "FailNow">>
    [] op = "FailNow"           -> <<"incFailCount", "FailNow">>
    [] op = "Skip"              -> <<"log", "SkipNow">>
    [] op = "FailCount"         -> <<"getFailCount">>
    [] op = "Output"            -> <<"outputCopy">>
    [] op = "Done"              -> <<"getFailCount", "outputCopy">>

\* the calls a method of T makes, in the order of its statements
Body(op) ==
  CASE op = "Error"             -> <<"incFailCount", "log", "Fail">>
    [] op = "Fail"              -> <<"incFailCount", "Fail">>
    [] op = "Log"               -> <<"log">>
    [] op = "Fatal"             -> <<"incFailCount", "log", "FailNow">>
    [] op = "FailNow"           -> <<"incFailCount", "FailNow">>
    [] op = "Skip"              -> <<"log", "SkipNow">>
    [] op = "FailCount"         -> <<"getFailCount">>
    [] op = "Output"            -> <<"outputCopy">>
    [] op = "Done"              -> <<"getFailCount", "outputCopy">>

Calls(op) == {Body(op)[i] : i \in 1..Len(Body(op))}

\* what the test passes, and the line of the method that calls decorate
Text(op) ==
  CASE op = "Error" -> Sprintln(OneTwo)
    [] op = "Log"   -> Sprintln(Testing)
    [] op = "Fatal" -> Sprintln(OneTwo)
    [] op = "Skip"  -> Sprintln(Testing)
    [] OTHER        -> <<>>

Site(op) ==
  IF op = "Error" THEN 320 ELSE IF op = "Fatal" THEN 334 ELSE IF op = "Skip" THEN 347 ELSE 308

\* a Lock that never waits
CanLock_Open(g) == TRUE

\* sync.Mutex.Lock returns once no goroutine holds the mutex
CanLock(g) == mutex = "free"

\* the call a goroutine is at
At(g) == Body(procs[g].op)[procs[g].call]

\* after a call: at the next one, or back in the test, the method's locals gone
Advance(p) ==
  IF p.call = Len(Body(p.op))
  THEN [p EXCEPT !.op = "none", !.h = 0, !.msg = <<>>, !.call = 0, !.inside = FALSE,
                 !.count = 0, !.output = NilSlice0]
  ELSE [p EXCEPT !.call = @ + 1, !.inside = FALSE]

\* goroutine g calls method op of handle h; the message it will log is
\* decorated from the handle and the stack alone
Start(g, op, h) ==
  /\ Running
  /\ procs[g].call = 0
  /\ procs' = [procs EXCEPT
                 ![g].op = op, ![g].h = h, ![g].call = 1, ![g].inside = FALSE,
                 ![g].since = IF op # "Done" THEN @
                              ELSE IF \A w \in Writers : procs[w].call = 0
                                   THEN made.writes ELSE -1,
                 ![g].msg = IF "log" \in Calls(op)
                            THEN decorate(handles[h], Text(op), Inside(arg.stk, Site(op)))
                            ELSE <<>>]
  /\ made' = IF Calls(op) \cap {"incFailCount", "log"} = {} THEN made
             ELSE [made EXCEPT !.fail = @ + (IF "incFailCount" \in Calls(op) THEN 1 ELSE 0),
                               !.msg = @ + (IF "log" \in Calls(op) THEN 1 ELSE 0),
                               !.abort = @ + (IF Calls(op) \cap {"FailNow", "SkipNow"} = {}
                                              THEN 0 ELSE 1),
                               !.writes = @ + 1, !.by = h]
  /\ UNCHANGED <<handles, origin, accs, heap, tests, exited, snaps, ret, arg, mutex>>

\* a.mutex.Lock() and what the method reads of the accumulator
Enter(g) ==
  LET p == procs[g]
      a == accs[handles[p.h].context]
  IN  /\ p.call > 0 /\ ~p.inside
      /\ At(g) \in {"incFailCount", "log", "getFailCount", "outputCopy"}
      /\ CanLock(g)
      /\ mutex' = g
      /\ procs' = [procs EXCEPT
                     ![g].inside = TRUE,
                     ![g].count = IF At(g) \in {"incFailCount", "getFailCount"}
                                  THEN a.failCount ELSE @,
                     ![g].output = IF At(g) \in {"log", "outputCopy"} THEN a.output ELSE @]
      /\ UNCHANGED <<handles, origin, accs, heap, tests, exited, snaps, ret, arg, made>>

\* the slices the goroutines have read and not yet used
Loaded(ps) ==
  LET RECURSIVE seq(_)
      seq(G) == IF G = {} THEN <<>>
                ELSE LET g == CHOOSE x \in G : TRUE IN <<ps[g].output>> \o seq(G \ {g})
  IN  seq({g \in Goroutines : ps[g].inside})

\* what the method writes or returns, and the deferred a.mutex.Unlock()
Leave(g) ==
  LET p  == procs[g]
      c  == handles[p.h].context
      m  == CASE At(g) = "incFailCount" ->
                   incFailCount([M EXCEPT !.accs[c].failCount = p.count], c)
              [] At(g) = "log" -> log([M EXCEPT !.accs[c].output = p.output], c, p.msg)
              [] OTHER -> M
      cp == outputCopy([M EXCEPT !.accs[c].output = p.output], c)
      out == Elems(cp.heap, cp.slice)
      q  == CASE At(g) = "incFailCount" -> [p EXCEPT !.counted = @ + 1]
              [] At(g) = "log" -> [p EXCEPT !.said = Append(@, TrimSpace(p.msg))]
              [] At(g) = "getFailCount" ->
                   IF p.op = "FailCount" THEN [p EXCEPT !.gotCount = p.count] ELSE p
              [] At(g) = "outputCopy" ->
                   IF p.op = "Output"
                   THEN [p EXCEPT !.gotOutput = out, !.hasOutput = TRUE]
                   ELSE [p EXCEPT !.gotDone =
                                     summary([M EXCEPT !.accs[c].failCount = p.count], p.h)
                                     \o Join(out, <<"\n">>),
                                  !.doneAt = p.count, !.doneLog = out]
      ps == [procs EXCEPT ![g] = Advance(q)]
  IN  /\ p.call > 0 /\ p.inside
      /\ accs' = m.accs
      /\ heap' = Collect(m.heap, m.accs, SnapSlices(snaps) \o Loaded(ps))
      /\ procs' = ps
      /\ mutex' = "free"
      /\ UNCHANGED <<handles, origin, tests, exited, snaps, ret, arg, made>>

\* t.test.Fail()
Host(g) ==
  LET p == procs[g]
  IN  /\ p.call > 0 /\ At(g) = "Fail"
      /\ tests' = testFail(M, handles[p.h].test).tests
      /\ procs' = [procs EXCEPT ![g] = Advance(p)]
      /\ UNCHANGED <<handles, origin, accs, heap, exited, snaps, ret, arg, made, mutex>>

\* an abort that leaves the mutex with the goroutine it ends
Abort_Locked(g) ==
  LET p == procs[g]
      t == handles[p.h].test
  IN  /\ p.call > 0 /\ At(g) \in {"FailNow", "SkipNow"}
      /\ tests' = (IF At(g) = "FailNow" THEN testFailNow(M, t) ELSE testSkipNow(M, t)).tests
      /\ exited' = TRUE
      /\ procs' = [procs EXCEPT ![g] = [p EXCEPT !.op = "Done", !.call = 1, !.inside = FALSE,
                                                  !.msg = <<>>, !.since = -1]]
      /\ mutex' = g
      /\ UNCHANGED <<handles, origin, accs, heap, snaps, ret, arg, made>>

\* t.test.FailNow() / t.test.SkipNow(): the host is marked and the goroutine
\* ends, running the deferred function of the test, which calls Done()
Abort(g) ==
  LET p == procs[g]
      t == handles[p.h].test
  IN  /\ p.call > 0 /\ At(g) \in {"FailNow", "SkipNow"}
      /\ tests' = (IF At(g) = "FailNow" THEN testFailNow(M, t) ELSE testSkipNow(M, t)).tests
      /\ exited' = TRUE
      /\ procs' = [procs EXCEPT ![g] = [p EXCEPT !.op = "Done", !.call = 1, !.inside = FALSE,
                                                  !.msg = <<>>, !.since = -1]]
      /\ UNCHANGED <<handles, origin, accs, heap, snaps, ret, arg, made, mutex>>

\* The test goroutine recording and aborting while another goroutine records
\* and a third calls FailCount again and again
NextLive ==
  \/ \E op \in {"Error", "Fatal", "FailNow", "Skip"} :
       MayWrite(LiveOps) /\ Start("w1", op, 1)
  \/ \E op \in {"Error", "Log"} : MayWrite(LiveOps) /\ Start("w2", op, 1)
  \/ Start("r", "FailCount", 1)
  \/ \E g \in Goroutines : Enter(g)
  \/ \E g \in Goroutines : Leave(g)
  \/ \E g \in Writers : Host(g)
  \/ Abort("w1")

\* The goroutines are scheduled fairly: a goroutine that can take its next
\* step takes it, and a goroutine waiting in Lock() gets the mutex when it is
\* free again and again (sync.Mutex hands it to a starved waiter).  The next
\* step of a goroutine inside a method of the accumulator is its Leave, the
\* step that frees the mutex it holds.
SpecLive ==
  /\ Init /\ [][NextLive]_vars
  /\ \A g \in Goroutines : SF_vars(Enter(g))
  /\ \A g \in Goroutines : WF_mutex(procs[g].inside /\ mutex' = "free")
  /\ \A g \in Writers : WF_vars(Host(g))
  /\ WF_vars(Abort("w1"))

\* Two goroutines recording through the root handle while a third calls Done
NextConc ==
  \/ \E g \in Writers, op \in {"Error", "Log", "Fail"} :
       MayWrite(ConcOps) /\ Start(g, op, 1)
  \/ Start("r", "Done", 1)
  \/ \E g \in Goroutines : Enter(g)
  \/ \E g \in Goroutines : Leave(g)
  \/ \E g \in Goroutines : Host(g)

SpecConc == Init /\ [][NextConc]_vars

\* One goroutine recording through the root handle while another reads
NextRead ==
  \/ \E op \in {"Error", "Log"} : MayWrite(ReadOps) /\ Start("w1", op, 1)
  \/ \E op \in {"FailCount", "Output", "Done"} : Start("r", op, 1)
  \/ \E g \in {"w1", "r"} : Enter(g)
  \/ \E g \in {"w1", "r"} : Leave(g)
  \/ Host("w1")

SpecRead == Init /\ [][NextRead]_vars

-----------------------------------------------------------------------------
(* Properties *)

\* the shared log, oldest entry first
TheLog == Elems(heap, accs[1].output)

\* what Output() returns through handle h
OutputOf(h) == LET cp == Output(M, h) IN Elems(cp.heap, cp.slice)

\* C1: through every handle FailCount() is the number of failures recorded by
\* the calls made so far (failing True/False/Nil/NotNil/Equal/Unequal, Fail,
\* FailNow, Error(f), Fatal(f)) and Output() has one entry for every call that
\* records a message (failing helpers, Log(f), Error(f), Fatal(f), Skip(f));
\* a passing helper adds to neither, a failure tells the host, and calls that
\* do not abort leave the test running.
C1_Accounting ==
  /\ \A h \in H : FailCount(M, h) = made.fail /\ Len(OutputOf(h)) = made.msg
  /\ ret.op = "FailCount" => ret.num = made.fail
  /\ ret.op = "Output" => Len(ret.list) = made.msg
  /\ made.fail > 0 => testFailed(M, 1)
  /\ made.abort = 0 => Running

\* two recorded calls, one of them without a message, then FailCount()
C1_Witness ==
  /\ made.writes = 2 /\ made.fail = 2 /\ made.msg = 1
  /\ Running
  /\ ret.op = "FailCount"

\* a step that records one failure with its message and tells the host
RecordsOne ==
  /\ accs'[1].failCount = accs[1].failCount + 1
  /\ TheLog' = TheLog \o <<TheLog'[Len(TheLog')]>>
  /\ tests'[1].failed

\* a step that records nothing
RecordsNone == accs' = accs /\ TheLog' = TheLog /\ tests' = tests

\* the entry a step has added
Added == TheLog'[Len(TheLog')]

NotEqualText == <<"Values", " ", "were", " ", "not", " ", "equal">>
NotUnequalText == <<"Values", " ", "were", " ", "not", " ", "unequal">>
CantCompareText ==
  <<"Can't", " ", "safely", " ", "compare", " ", "nil", " ", "values", " ", "for", " ",
    "equality">>

C4_NilNotNil ==
  [][/\ NilCall(1, arg.stk) =>
          IF Absent(arg.a) THEN RecordsNone
          ELSE RecordsOne /\ Contains(Added, <<"Expression", " ", "was", " ", "not", " ", "nil">>)
     /\ NotNilCall(1, arg.stk) =>
          IF Absent(arg.a)
          THEN RecordsOne /\ Contains(Added, <<"Expression", " ", "was", " ", "nil">>)
          ELSE RecordsNone]_vars

\* NotNil has failed on a nil slice
C4_Witness ==
  /\ arg.a = NilSlice
  /\ Len(TheLog) = 1
  /\ Contains(TheLog[1], <<"Expression", " ", "was", " ", "nil">>)

\* the handle a step has made
Derived == handles'[Len(handles')]

\* C5: Label and Uplevel leave every existing handle as it is and return a new
\* one that differs from the receiver in its label only, respectively in its
\* call depth only; all handles have the root's case name, host test and
\* accumulator, so FailCount(), Output() and Done() give through every handle
\* what they give through the root, with every recorded failure and message.
C5_CopyOnDerive ==
  /\ [](/\ Len(accs) = 1
        /\ \A h \in H :
             /\ handles[h].context = handles[1].context
             /\ handles[h].test = handles[1].test
             /\ handles[h].caseName = CaseName
             /\ FailCount(M, h) = made.fail
             /\ Len(OutputOf(h)) = made.msg
             /\ OutputOf(h) = OutputOf(1)
             /\ Done(M, h) = Done(M, 1))
  /\ [][/\ \A h \in H : handles'[h] = handles[h]
        /\ \A h \in H :
             /\ \A parts \in {Checking3, Testing} :
                  LabelCall(h, parts) =>
                    [Derived EXCEPT !.label = handles[h].label] = handles[h]
             /\ UplevelCall(h, 1) =>
                  /\ [Derived EXCEPT !.callDepth = handles[h].callDepth] = handles[h]
                  /\ Derived.callDepth = handles[h].callDepth + 1]_vars

\* a failure recorded through a labelled handle derived from a derived handle
C5_Witness ==
  /\ Len(handles) = 3
  /\ origin[2].parent = 1 /\ origin[3].parent = 2
  /\ handles[2] # handles[1] /\ handles[3] # handles[2]
  /\ origin[3].parts = Checking3
  /\ made.fail = 1
  /\ Len(TheLog) = 1 /\ Contains(TheLog[1], <<"Checking", " ", "3", ":", " ">>)

\* the renderings of parts with single spaces between them, trimmed, then ": "
LabelOf(parts) ==
  TrimSpace(Join([i \in 1..Len(parts) |-> FormatV(parts[i])], <<" ">>)) \o <<":", " ">>

\* C6: the label of a handle is that of the last Label in its derivation: the
\* renderings of its parts joined by spaces, trimmed, then ": " (empty when
\* there was no Label), whatever Label or Uplevel came before or after; its
\* call depth is that of the root plus the Uplevel arguments.  A failure
\* recorded through Label("Checking", 3) has the form
\* "<file>:<line>: Checking 3: <message>".
C6_Label ==
  /\ [](\A h \in H :
          /\ handles[h].label = IF origin[h].labelled THEN LabelOf(origin[h].parts) ELSE <<>>
          /\ handles[h].callDepth = 1 + origin[h].up)
  /\ [][\A h \in H :
          (origin[h].labelled /\ origin[h].parts = Checking3) =>
            /\ TrueCall(h, arg.stk, FALSE) =>
                 /\ Len(Added) > 5
                 /\ Added[2] = ":" /\ Added[4] = ":" /\ Added[5] = " "
                 /\ SubSeq(Added, 6, Len(Added)) =
                      <<"Checking", " ", "3", ":", " ",
                        "Expression", " ", "was", " ", "not", " ", "true">>
            /\ ErrorCall(h, arg.stk, OneTwo) =>
                 /\ Len(Added) > 5
                 /\ Added[2] = ":" /\ Added[4] = ":" /\ Added[5] = " "
                 /\ SubSeq(Added, 6, Len(Added)) =
                      <<"Checking", " ", "3", ":", " ">> \o TrimSpace(Sprintln(OneTwo))]_vars

\* a failure recorded through h.Label("Testing").Label("Checking", 3)
C6_Witness ==
  /\ Len(handles) = 3
  /\ origin[2].parent = 1 /\ origin[2].labelled /\ origin[2].parts = Testing
  /\ origin[3].parent = 2 /\ origin[3].parts = Checking3
  /\ Len(TheLog) = 1
  /\ Contains(TheLog[1], <<":", " ", "Checking", " ", "3", ":", " ", "Expression">>)

\* "<file>:<line>: " of a frame, the file without its directories
Location(frame) == <<frame.file[Len(frame.file)], ":", ToString(frame.line), ":", " ">>

\* C7: a message recorded by True, False, Nil, NotNil, Equal, Unequal, Log(f),
\* Error(f), Fatal(f) or Skip(f) through a handle whose Uplevel arguments sum
\* to k >= 0 starts with the file and line of the frame k levels above the
\* frame that called the method, when the stack has that frame: the caller
\* itself for the root, the helper's caller for Uplevel(1) in a helper.
C7_CallSite ==
  [][made'.msg = made.msg + 1 =>
       LET k == origin[made'.by].up
           i == Len(arg.stk) - k
       IN  (k >= 0 /\ i >= 1) =>
             /\ Len(TheLog') = Len(TheLog) + 1
             /\ HasPrefix(Added, Location(arg.stk[i]))]_vars

\* in the helper, a message recorded through Uplevel(1) of Uplevel(0) of the
\* root has the line of the helper's caller
C7_Witness ==
  /\ arg.stk = StackHelper
  /\ Len(handles) = 3
  /\ origin[2].parent = 1 /\ origin[2].up = 0
  /\ origin[3].parent = 2 /\ origin[3].up = 1
  /\ made.by = 3
  /\ Len(TheLog) = 1
  /\ HasPrefix(TheLog[1], <<"testy_test.go", ":", "116", ":", " ">>)

\* the first line of the report after k failures
SummaryLine(k) ==
  CaseName \o <<":", " ">>
  \o (IF k = 0 THEN <<"all", " ", "tests", " ", "passed">>
      ELSE IF k = 1 THEN <<"1", " ", "test", " ", "failed">>
      ELSE <<ToString(k), " ", "tests", " ", "failed">>)

\* C8: after k recorded failures Done() returns, through every handle,
\* "<caseName>: all tests passed" (k = 0), "<caseName>: 1 test failed" (k = 1)
\* or "<caseName>: k tests failed" (k >= 2), a newline, and the entries of
\* the log in their order with newlines between them; the wording follows k
\* whatever the log holds.
C8_Done ==
  LET report == SummaryLine(made.fail) \o <<"\n">> \o Join(TheLog, <<"\n">>)
  IN  /\ \A h \in H : Done(M, h) = report
      /\ ret.op = "Done" => ret.str = report

\* Done() after two failures and a Log
C8_Witness ==
  /\ ret.op = "Done"
  /\ made.fail = 2
  /\ Len(TheLog) = 3
  /\ \E i \in 1..3 : HasPrefix(TheLog[i], Location(arg.stk[Len(arg.stk)]) \o FormatV(Checking3[1]))

\* C9: no step lowers the fail count or changes or removes an entry of the
\* log: the log before a step is a prefix of the log after it.  The steps
\* that record nothing (those of Done, Output, FailCount, Failed, Skipped,
\* Label and Uplevel) leave both as they are, and a Done() that follows a
\* Done() returns the same string; what Done() returned stays what Done()
\* returns until something is recorded.
C9_OnlyGrows ==
  /\ [][/\ accs'[1].failCount >= accs[1].failCount
        /\ Len(TheLog') >= Len(TheLog)
        /\ SubSeq(TheLog', 1, Len(TheLog)) = TheLog
        /\ made'.writes = made.writes
             => (accs'[1].failCount = accs[1].failCount /\ TheLog' = TheLog)
        /\ (ret.op = "Done" /\ ret'.op = "Done") => ret'.str = ret.str]_vars
  /\ [](ret.op = "Done" => \A h \in H : Done(M, h) = ret.str)

\* Done() after three recorded calls and a derivation
C9_Witness ==
  /\ ret.op = "Done"
  /\ made.writes = 3 /\ made.fail >= 1 /\ Len(TheLog) >= 2
  /\ Len(handles) = 2

\* the elements of the slice held as snapshot j
Held(j) == Elems(heap, snaps[j].slice)

\* a step of the test writing to, appending to or truncating a slice it holds
Meddles ==
  /\ made' = made /\ ret' = ret
  /\ Len(snaps') = Len(snaps)
  /\ heap' # heap \/ snaps' # snaps

\* C10: a slice returned by Output() holds the log as it was when the call
\* was made, so two calls with nothing recorded between them return equal
\* slices; Output() and Done() return the log as it is; when the test
\* overwrites, appends to or truncates a slice it got, the log, the fail count
\* and the other slices it got stay as they are.
C10_Snapshot ==
  /\ [](/\ \A j \in 1..Len(snaps) :
             snaps[j].clean => Held(j) = SubSeq(TheLog, 1, snaps[j].at)
        /\ ret.op = "Output" =>
             /\ ret.list = TheLog
             /\ \A j \in 1..Len(snaps) :
                  (snaps[j].clean /\ snaps[j].at = made.writes) => Held(j) = ret.list
        /\ OutputOf(1) = TheLog
        /\ Done(M, 1) = summary(M, 1) \o Join(TheLog, <<"\n">>))
  /\ [][Meddles =>
          /\ TheLog' = TheLog
          /\ accs' = accs /\ handles' = handles
          /\ \A j, k \in 1..Len(snaps) :
               j # k => (Held(j)' = Held(j) \/ Held(k)' = Held(k))]_vars

\* the test has written to a slice it got, and called Output() after that
C10_Witness ==
  /\ Len(snaps) = 1
  /\ ~snaps[1].clean
  /\ Held(1) # SubSeq(TheLog, 1, snaps[1].at)
  /\ made.writes = 2 /\ snaps[1].at = 2
  /\ ret.op = "Output" /\ ret.list = TheLog

\* the report of the state: summary line, newline, the log joined by newlines
Report == SummaryLine(accs[1].failCount) \o <<"\n">> \o Join(TheLog, <<"\n">>)

\* C11: Fatal and Fatalf record one failure with its decorated message, tell
\* the host the test failed and end the test goroutine; FailNow does so
\* without a message.  Once the goroutine has ended nothing more is recorded,
\* and a Done() run after that reports every recorded failure, the fatal one
\* included, in its summary and its log.
C11_Fatal ==
  /\ [][/\ (FatalCall(1, arg.stk, OneTwo) \/ FatalfCall(1, arg.stk, FormatSS, OneTwo)) =>
             /\ RecordsOne
             /\ Added = Location(arg.stk[Len(arg.stk)]) \o <<"one", " ", "two">>
             /\ tests'[1].finished /\ ~tests'[1].skipped
             /\ exited'
        /\ FailNowCall(1) =>
             /\ accs'[1].failCount = accs[1].failCount + 1
             /\ TheLog' = TheLog
             /\ tests'[1].failed /\ tests'[1].finished /\ ~tests'[1].skipped
             /\ exited'
        /\ exited => (exited' /\ accs' = accs /\ TheLog' = TheLog /\ tests' = tests
                       /\ made' = made)]_vars
  /\ [](/\ (exited /\ ~tests[1].skipped) =>
             (tests[1].failed /\ accs[1].failCount = made.fail /\ made.fail >= 1)
        /\ (exited /\ ret.op = "Done") =>
             (ret.str = Report /\ Len(TheLog) = made.msg))

\* an Error, then a Fatal, then Done() in the deferred function
C11_Witness ==
  /\ exited /\ tests[1].failed /\ ~tests[1].skipped
  /\ made.fail = 2 /\ Len(TheLog) = 2
  /\ ret.op = "Done"
  /\ Contains(ret.str, <<"2", " ", "tests", " ", "failed">>)

\* C12: Skip and Skipf record one decorated message, mark the host test
\* skipped and end the test goroutine, SkipNow does so without a message; none
\* of them changes the fail count or marks the host failed, so Done() after a
\* test that only logged and skipped begins "<caseName>: all tests passed"
\* and has the skip message in its log.
C12_Skip ==
  /\ [][/\ (SkipCall(1, arg.stk, Testing) \/ SkipfCall(1, arg.stk, FormatSS, OneTwo)) =>
             /\ accs'[1].failCount = accs[1].failCount
             /\ TheLog' = TheLog \o <<Added>>
             /\ HasPrefix(Added, Location(arg.stk[Len(arg.stk)]))
             /\ tests'[1].skipped /\ tests'[1].finished
             /\ tests'[1].failed = tests[1].failed
             /\ exited'
        /\ SkipNowCall(1) =>
             /\ accs' = accs /\ TheLog' = TheLog
             /\ tests'[1].skipped /\ tests'[1].finished
             /\ tests'[1].failed = tests[1].failed
             /\ exited']_vars
  /\ [](/\ tests[1].skipped => (exited /\ accs[1].failCount = made.fail)
        /\ (ret.op = "Done" /\ made.fail = 0) =>
             /\ ~tests[1].failed
             /\ ret.str = CaseName \o <<":", " ", "all", " ", "tests", " ", "passed", "\n">>
                          \o Join(TheLog, <<"\n">>)
             /\ Len(TheLog) = made.msg)

\* a Log, then a Skip, then Done() in the deferred function
C12_Witness ==
  /\ exited /\ tests[1].skipped /\ ~tests[1].failed
  /\ made.fail = 0 /\ Len(TheLog) = 2
  /\ Contains(TheLog[2], <<"Testing">>)
  /\ ret.op = "Done"
  /\ Contains(ret.str, <<"all", " ", "tests", " ", "passed">>)
  /\ Contains(ret.str, TheLog[2])

\* C13: Failed() and Skipped() return what the host test holds; the host test,
\* marked only by the calls made through the handles of the case, is failed
\* exactly when FailCount() > 0, so after every recorded failure and never
\* after Log, Logf, Skip, Skipf, SkipNow or a passing helper alone.
C13_Status ==
  /\ \A h \in H : Failed(M, h) = tests[1].failed /\ Skipped(M, h) = tests[1].skipped
  /\ ret.op = "Failed" => ret.flag = tests[1].failed
  /\ ret.op = "Skipped" => ret.flag = tests[1].skipped
  /\ \A h \in H : Failed(M, h) <=> FailCount(M, h) > 0
  /\ made.fail > 0 <=> tests[1].failed

\* Failed() after a Fail()
C13_Witness ==
  /\ ret.op = "Failed" /\ ret.flag
  /\ made.fail = 1 /\ made.msg = 0 /\ made.abort = 0
  /\ tests[1].failed

\* no recording goroutine is inside a method of T
WritersQuiet == \A w \in Writers : procs[w].call = 0

\* t is an interleaving of a and b that keeps the order of each
RECURSIVE IsMerge(_, _, _)
IsMerge(a, b, t) ==
  IF t = <<>> THEN a = <<>> /\ b = <<>>
  ELSE \/ a # <<>> /\ Head(a) = Head(t) /\ IsMerge(Tail(a), b, Tail(t))
       \/ b # <<>> /\ Head(b) = Head(t) /\ IsMerge(a, Tail(b), Tail(t))

\* C14: with two goroutines recording failures and messages through one
\* accumulator and a third calling Done(), in every interleaving no update is
\* lost: the fail count is the number of increments the goroutines have made
\* and the log is an interleaving of the entries each goroutine has appended,
\* each goroutine's entries in its call order; once the recording goroutines
\* have all returned, FailCount() is the number of failure-recording calls,
\* Output() has one entry per message-recording call, and a Done() run from
\* then on reports that count and that log.
C14_NoLostUpdate ==
  /\ accs[1].failCount = procs["w1"].counted + procs["w2"].counted
  /\ IsMerge(procs["w1"].said, procs["w2"].said, TheLog)
  /\ WritersQuiet =>
       /\ FailCount(M, 1) = made.fail
       /\ Len(OutputOf(1)) = made.msg
       /\ OutputOf(1) = TheLog
       /\ Done(M, 1) = SummaryLine(made.fail) \o <<"\n">> \o Join(TheLog, <<"\n">>)
  /\ (procs["r"].call = 0 /\ procs["r"].doneAt >= 0 /\ procs["r"].since = made.writes) =>
       /\ procs["r"].doneAt = made.fail
       /\ procs["r"].gotDone = SummaryLine(made.fail) \o <<"\n">> \o Join(TheLog, <<"\n">>)

\* both goroutines have recorded an Error and a Done() called after they
\* returned has reported both
C14_Witness ==
  /\ WritersQuiet /\ made.fail = 2 /\ made.msg = 2
  /\ procs["w1"].counted = 1 /\ procs["w2"].counted = 1
  /\ Len(procs["w1"].said) = 1 /\ Len(procs["w2"].said) = 1
  /\ procs["r"].call = 0 /\ procs["r"].since = made.writes
  /\ procs["r"].doneAt = 2
  /\ Contains(procs["r"].gotDone, <<"2", " ", "tests", " ", "failed">>)

\* the entries of a log that are messages of an Error call
Failures(list) ==
  Cardinality({i \in 1..Len(list) : Contains(list[i], <<"one", " ", "two">>)})

\* C19: a failure-recording call increments the fail count, then appends its
\* message if it has one, then tells the host.  So in every state, inside a
\* call and under every interleaving of the goroutines, the log holds at most
\* as many failure messages as the fail count; a goroutine about to tell the
\* host has made its increment and, if the call has a message, the message is
\* its last entry and is in the log; and a failed host means a fail count of
\* at least 1.
C19_StepOrder ==
  /\ [](/\ Failures(TheLog) <= accs[1].failCount
        /\ \A g \in Writers :
             (procs[g].call > 0 /\ At(g) = "Fail") =>
               /\ procs[g].counted >= 1
               /\ accs[1].failCount >= 1
               /\ procs[g].op = "Error" =>
                    /\ procs[g].said # <<>>
                    /\ procs[g].said[Len(procs[g].said)] = TrimSpace(procs[g].msg)
                    /\ \E i \in 1..Len(TheLog) : TheLog[i] = TrimSpace(procs[g].msg)
        /\ tests[1].failed =>
             /\ accs[1].failCount >= 1
             /\ Failures(TheLog) >= 1 \/ \E g \in Writers :
                  procs[g].counted > Failures(procs[g].said))
  /\ [][tests' # tests =>
          \E g \in Writers : procs[g].call > 0 /\ At(g) = "Fail"
                             /\ procs'[g].call # procs[g].call]_vars

\* the host has just been told of an Error while the other goroutine, inside
\* another Error, has made its increment and not yet appended its message
C19_Witness ==
  /\ tests[1].failed
  /\ accs[1].failCount = 2 /\ Failures(TheLog) = 1
  /\ procs["w1"].call = 0 /\ procs["w1"].counted = 1 /\ Len(procs["w1"].said) = 1
  /\ procs["w2"].call = 2 /\ procs["w2"].op = "Error" /\ procs["w2"].counted = 1

\* the recording goroutine is inside an Error, past its increment and not past
\* its append
Between == procs["w1"].op = "Error" /\ procs["w1"].call = 2

\* C15: recording a failure is two critical sections, the increment and the
\* append, and a reader can run between them: while a goroutine is inside an
\* Error with its increment made and its message not yet appended, the mutex
\* is free whenever the goroutine is not inside the append, the fail count is
\* one more than the failure messages of the log, and this is what FailCount()
\* and Output() return to a reader; outside such a call the two are equal.
C15_NoCrossAtomicity ==
  /\ [](/\ accs[1].failCount = Failures(TheLog) + (IF Between THEN 1 ELSE 0)
        /\ (Between /\ ~procs["w1"].inside) => mutex # "w1"
        /\ (Between /\ mutex = "free") =>
             FailCount(M, 1) = Failures(OutputOf(1)) + 1)
  /\ [][/\ (procs'["r"].gotCount # procs["r"].gotCount) =>
             procs'["r"].gotCount = accs[1].failCount
        /\ (procs'["r"].hasOutput /\ procs'["r"].gotOutput # procs["r"].gotOutput) =>
             procs'["r"].gotOutput = TheLog]_vars

\* while an Error is between its two critical sections the reader has called
\* FailCount() and then Output(): one failure counted, no message in the log
C15_Witness ==
  /\ Between /\ ~procs["w1"].inside
  /\ procs["r"].call = 0
  /\ procs["r"].gotCount = 1
  /\ procs["r"].hasOutput /\ procs["r"].gotOutput = <<>>
  /\ TheLog = <<>> /\ accs[1].failCount = 1
  /\ ~tests[1].failed

\* s is the first Len(s) entries of t
IsPrefix(s, t) == Len(s) <= Len(t) /\ \A i \in 1..Len(s) : s[i] = t[i]

\* C20: Done() reads the fail count and then the log in two critical
\* sections.  What it returns is the summary of the count it read followed by
\* the log it read: the count is at most the count now, the log is the first
\* entries of the log now, and because the log is read after the count, the
\* failure messages in the report may be more than the count of its summary
\* and are never fewer by more than the one failure then in progress.  A
\* Done() during which no goroutine was recording is consistent: its count is
\* the number of failure messages in its log.
C20_DoneTwoReads ==
  LET r == procs["r"]
  IN  (r.call = 0 /\ r.doneAt >= 0) =>
        /\ r.gotDone = SummaryLine(r.doneAt) \o <<"\n">> \o Join(r.doneLog, <<"\n">>)
        /\ r.doneAt <= accs[1].failCount
        /\ IsPrefix(r.doneLog, TheLog)
        /\ Failures(r.doneLog) >= r.doneAt - 1
        /\ r.since = made.writes =>
             /\ r.doneAt = Failures(r.doneLog)
             /\ r.doneAt = made.fail /\ r.doneLog = TheLog

\* a Done() that read the count before an Error and the log after it: "all
\* tests passed" followed by the message of the failure
C20_Witness ==
  LET r == procs["r"]
  IN  /\ r.call = 0 /\ r.doneAt = 0
      /\ Contains(r.gotDone, <<"all", " ", "tests", " ", "passed">>)
      /\ Failures(r.doneLog) = 1
      /\ Contains(r.gotDone, <<"one", " ", "two">>)
      /\ accs[1].failCount = 1

\* the location a message recorded through handle h is given: the frame as
\* many levels above the caller of the method as the Uplevel arguments of h
\* sum to, the method's or decorate's own line when that sum is -1 or -2, the
\* placeholder when the stack has no such frame
Where(h, fails) ==
  LET i == Len(arg.stk) - origin[h].up
  IN  IF i < 1 THEN <<"???", ":", "1", ":", " ">>
      ELSE IF i <= Len(arg.stk) THEN Location(arg.stk[i])
      ELSE IF i = Len(arg.stk) + 1
           THEN <<"testy.go", ":", IF fails THEN "320" ELSE "308", ":", " ">>
           ELSE <<"testy.go", ":", "385", ":", " ">>

\* text with one tab after each of its newlines
RECURSIVE Indent(_)
Indent(s) ==
  IF s = <<>> THEN <<>>
  ELSE IF Head(s) = "\n" THEN <<"\n", "\t">> \o Indent(Tail(s))
       ELSE <<Head(s)>> \o Indent(Tail(s))

\* the label of handle h
Labelled(h) == IF origin[h].labelled THEN LabelOf(origin[h].parts) ELSE <<>>

\* tab, file:line, label, and the message the test passed with its
\* continuation lines indented
Laid(h, fails) == <<"\t">> \o Where(h, fails) \o Labelled(h) \o Indent(arg.a.text)

\* C16 as stated: every entry is "\t<file>:<line>: <label><message>", leading
\* tab and message text as given.
C16_AsStated ==
  [][made'.msg = made.msg + 1 =>
       Added = Laid(made'.by, made'.fail > made.fail)]_vars

\* C16: every log entry, in the output and in the string Done() returns, is
\* "\t<file>:<line>: <label><first line of message>", continuation lines on
\* lines of their own after one tab, <file> the last path segment, with the
\* whitespace around the whole stripped: the entry begins with <file>, not
\* with a tab, and ends with the last byte of the message that is not
\* whitespace; label and message are otherwise as given.
C16_Layout ==
  /\ [](/\ \A i \in 1..Len(TheLog) :
             TheLog[i][1] \notin Space /\ TheLog[i][Len(TheLog[i])] \notin Space
        /\ ret.op = "Done" => ret.str = Report)
  /\ [][made'.msg = made.msg + 1 =>
          /\ TheLog' = TheLog \o <<Added>>
          /\ Added = TrimSpace(Laid(made'.by, made'.fail > made.fail))]_vars

\* a message of two lines recorded through a labelled handle and a Done()
\* after it: the entry begins with the file, its second line with a tab
C16_Witness ==
  /\ Len(TheLog) >= 1 /\ ret.op = "Done"
  /\ TheLog[1] = <<"testy_test.go", ":", "116", ":", " ", "Testing", ":", " ",
                   "one", "\n", "\t", "two">>
  /\ Contains(ret.str, TheLog[1])

\* C17: a message recorded through a handle whose call depth is beyond the
\* stack, so that the frame to report does not exist, is recorded all the
\* same: the call returns, exactly one entry is appended, its location is the
\* placeholder file "???" and line 1, and the fail count and the host test
\* change as they do for a frame that exists (Error: one more failure and the
\* host failed; Log: neither).
C17_NoFrame ==
  [][(made'.msg = made.msg + 1 /\ origin[made'.by].up >= Len(arg.stk)) =>
       /\ ~exited'
       /\ TheLog' = TheLog \o <<Added>>
       /\ HasPrefix(Added, <<"???", ":", "1", ":", " ">> \o Labelled(made'.by))
       /\ Contains(Added, <<"one">>)
       /\ accs'[1].failCount = accs[1].failCount + (made'.fail - made.fail)
       /\ IF made'.fail > made.fail THEN tests'[1].failed ELSE tests' = tests]_vars

\* an Error through root.Uplevel(3), three frames above a test function that
\* has two frames above it, and a Done() after it
C17_Witness ==
  /\ made.by >= 2 /\ handles[made.by].callDepth = 4
  /\ made.fail = 1 /\ made.msg = 1 /\ accs[1].failCount = 1 /\ tests[1].failed
  /\ Len(TheLog) = 1 /\ HasPrefix(TheLog[1], <<"???", ":", "1", ":", " ">>)
  /\ ret.op = "Done" /\ Contains(ret.str, <<"???", ":", "1", ":", " ">>)

\* C18 as stated: every handle has a non-negative uplevel, and the depth
\* runtime.Caller is given is at least 1.
C18_AsStated == \A h \in H : handles[h].callDepth >= 0 /\ 1 + handles[h].callDepth >= 1

\* C18: the root handle has uplevel 1; Uplevel(n) yields the receiver's
\* uplevel plus n for every integer n, negative ones included, and Label
\* yields the receiver's, so the uplevel of a handle is 1 plus the Uplevel
\* arguments of its derivation; from a receiver of uplevel 1 or more a
\* non-negative n yields an uplevel of 1 or more, a depth for resolution of 2
\* or more, and a message recorded through a handle of uplevel -1 is located
\* at the frame of depth 0, decorate's own.
C18_Uplevel ==
  /\ [](/\ handles[1].callDepth = 1
        /\ \A h \in H : handles[h].callDepth = 1 + origin[h].up)
  /\ [][Len(handles') = Len(handles) + 1 =>
          LET p == origin'[Len(handles')].parent
              n == origin'[Len(handles')].up - origin[p].up
          IN  /\ Derived.callDepth = handles[p].callDepth + n
              /\ Derived.label # handles[p].label => n = 0
              /\ (n >= 0 /\ handles[p].callDepth >= 1) =>
                   Derived.callDepth >= 1 /\ 1 + Derived.callDepth >= 2]_vars
  /\ [][(made'.msg = made.msg + 1 /\ handles[made'.by].callDepth = -1) =>
          HasPrefix(Added, <<"testy.go", ":", ToString(DecorateLine), ":", " ">>)]_vars

\* a message recorded through root.Uplevel(-2): uplevel -1, depth 0, located
\* at the line of decorate that calls runtime.Caller
C18_Witness ==
  /\ made.by >= 2 /\ handles[made.by].callDepth = -1
  /\ origin[made.by].parent = 1 /\ origin[made.by].up = -2
  /\ made.msg = 1
  /\ HasPrefix(TheLog[1], <<"testy.go", ":", "385", ":", " ">>)

\* the calls of a method of T that are methods of the accumulator
Guarded == {"incFailCount", "log", "getFailCount", "outputCopy"}

\* C21: a goroutine holds the mutex of the accumulator exactly while it is
\* inside getFailCount, outputCopy, log or incFailCount; it takes the mutex
\* only when it is free and the goroutine does not hold it, and has released
\* it when the method returns; it does not hold it when it enters a method of
\* T (where the message is decorated) nor when it calls the host's Fail,
\* FailNow or SkipNow, and an abort leaves the mutex as it is, not with the
\* goroutine that ends.  So, the goroutines scheduled fairly, every method of
\* T a goroutine has called returns, and after Fatal, FailNow or Skip on the
\* test goroutine the deferred Done() returns its report while the calls of
\* the other goroutines return too.
C21_LockDiscipline ==
  /\ [](/\ mutex \in Goroutines \cup {"free"}
        /\ \A g \in Goroutines :
             /\ mutex = g <=> procs[g].inside
             /\ procs[g].inside => procs[g].call > 0 /\ At(g) \in Guarded
             /\ (procs[g].call > 0 /\ At(g) \notin Guarded) => mutex # g
             /\ procs[g].call = 0 => mutex # g)
  /\ [][/\ \A g \in Goroutines :
             /\ (mutex' = g /\ mutex # g) => mutex = "free" /\ ~procs[g].inside
             /\ (procs[g].inside /\ ~procs'[g].inside) => mutex' = "free"
             /\ (procs[g].call = 0 /\ procs'[g].call > 0) => mutex' = mutex /\ mutex' # g
        /\ tests' # tests => mutex' = mutex
        /\ (exited' /\ ~exited) =>
             /\ mutex' = mutex /\ mutex' # "w1"
             /\ procs'["w1"].op = "Done" /\ procs'["w1"].call = 1]_vars
  /\ \A g \in Goroutines : (procs[g].call > 0) ~> (procs[g].call = 0)
  /\ exited ~> (/\ \A g \in Goroutines : procs[g].call = 0
                /\ mutex = "free"
                /\ procs["w1"].doneAt >= 0)

\* the test goroutine has ended by Fatal while the other goroutine was inside
\* an Error; that Error has returned, and the deferred Done() has returned a
\* report of both failures
C21_Witness ==
  /\ exited /\ tests[1].failed /\ tests[1].finished /\ made.abort = 1
  /\ \A g \in Goroutines : procs[g].call = 0
  /\ mutex = "free"
  /\ procs["w1"].counted = 1 /\ Len(procs["w1"].said) = 1
  /\ procs["w2"].counted = 1 /\ Len(procs["w2"].said) = 1
  /\ procs["w1"].doneAt = 2 /\ Len(procs["w1"].doneLog) = 2
  /\ Contains(procs["w1"].gotDone, <<"2", " ", "tests", " ", "failed">>)

=============================================================================
